---- MODULE Spec2Model ----
(***************************************************************************)
(* Booking bot (src/main.py): the conversation handler, the bookings table *)
(* and the date keyboard.                                                  *)
(*                                                                         *)
(* Conversations are kept by the ConversationHandler under its default     *)
(* key (chat, user); context.user_data is kept per user.  Updates are      *)
(* handled one at a time (the Application is built without concurrent      *)
(* updates), so every handler is one atomic step.  Dates are proleptic     *)
(* Gregorian ordinals (date.toordinal()).                                  *)
(***************************************************************************)
EXTENDS Integers, Sequences, FiniteSets

VARIABLES today, conv, user_data, store, rendered, last

vars == <<today, conv, user_data, store, rendered, last>>

-----------------------------------------------------------------------------
(* Bounds of the model *)

MaxUsers == 2
MaxChats == 2
MaxRows == 2
MaxPick == 1
MaxStart == 6
MaxTicks == 1

Users == 1..MaxUsers
Chats == 1..MaxChats

(* 2024-01-01, a Monday: date(2024, 1, 1).toordinal() *)
Today0 == 105555 * 7 + 1

-----------------------------------------------------------------------------
(* Program constants *)

Capacity == 10
HorizonDays == 14
LeadDays == 2

IDLE == "IDLE"
ASK_DATE == "ASK_DATE"
ASK_DOC == "ASK_DOC"
END == IDLE

NoDate == 0

(* The dates a callback of the model may carry: the first MaxPick dates    *)
(* that a keyboard rendered on Today0 can offer.                           *)
PickDates == (Today0 + LeadDays)..(Today0 + LeadDays + MaxPick - 1)

-----------------------------------------------------------------------------
(* Availability *)

weekday(d) == (d + 6) % 7

is_allowed_weekday_MonFri(dt) == weekday(dt) \in {0, 1, 2, 3, 4}

is_allowed_weekday(dt) == weekday(dt) \in {6, 0, 1, 2, 3}

generate_next_two_weeks_buttons(t) ==
    LET min_allowed == t + LeadDays
        days == [i \in 1..HorizonDays |-> t + (i - 1)]
        keep(d) == ~(d < min_allowed \/ ~is_allowed_weekday(d))
    IN  SelectSeq(days, keep)

Range(s) == {s[i] : i \in 1..Len(s)}

-----------------------------------------------------------------------------
(* Booking store: the rows of table bookings, in insertion order *)

RowIds(s) == {s[i].id : i \in 1..Len(s)}

NextRowId_stale(s) ==
    IF s = <<>> THEN 1
    ELSE CHOOSE m \in RowIds(s) : \A k \in RowIds(s) : k <= m

NextRowId(s) ==
    IF s = <<>> THEN 1
    ELSE (CHOOSE m \in RowIds(s) : \A k \in RowIds(s) : k <= m) + 1

add_booking_replace(s, user_id, date_str) ==
    LET row == [id |-> NextRowId(s), user_id |-> user_id,
                date |-> date_str, status |-> "PENDING"]
    IN  IF s = <<>> THEN <<row>> ELSE [s EXCEPT ![Len(s)] = row]

add_booking_approved(s, user_id, date_str) ==
    Append(s, [id |-> NextRowId(s), user_id |-> user_id,
               date |-> date_str, status |-> "APPROVED"])

add_booking(s, user_id, date_str) ==
    Append(s, [id |-> NextRowId(s), user_id |-> user_id,
               date |-> date_str, status |-> "PENDING"])

count_bookings_for_date_pending(s, date_str) ==
    Cardinality({i \in 1..Len(s) :
                    s[i].date = date_str /\ s[i].status = "PENDING"})

count_bookings_for_date(s, date_str) ==
    Cardinality({i \in 1..Len(s) :
                    s[i].date = date_str /\ s[i].status = "APPROVED"})

user_has_booking_on_date_active(s, user_id, date_str) ==
    Cardinality({i \in 1..Len(s) :
                    /\ s[i].user_id = user_id /\ s[i].date = date_str
                    /\ s[i].status # "REJECTED"}) > 0

user_has_booking_on_date(s, user_id, date_str) ==
    Cardinality({i \in 1..Len(s) :
                    s[i].user_id = user_id /\ s[i].date = date_str}) > 0

(* Rows left in the database file by earlier runs: Capacity - 1 approved   *)
(* bookings of other users for the first pick date.                        *)
LegacyRows ==
    [i \in 1..(Capacity - 1) |->
        [id |-> i, user_id |-> MaxUsers + i,
         date |-> Today0 + LeadDays, status |-> "APPROVED"]]

Inserted(s) == Cardinality({i \in 1..Len(s) : s[i].user_id \in Users})

-----------------------------------------------------------------------------
(* Handler selection: group 0 of the Application, in registration order    *)

Commands == {"cmd_start", "cmd_schedule", "cmd_cancel", "cmd_other"}
Events == Commands \cup {"cb_date", "msg"}
Attachments == {"document", "photo", "none"}

conv_handler_any_state(state, ev, att) ==
    CASE ev = "cmd_schedule" -> "schedule_start"
      [] state = ASK_DATE /\ ev = "cb_date" -> "receive_date_button"
      [] ev = "msg" /\ att \in {"document", "photo"} -> "receive_document"
      [] state # IDLE /\ ev = "cmd_cancel" -> "cancel"
      [] OTHER -> "none"

conv_handler(state, ev, att) ==
    CASE state = IDLE /\ ev = "cmd_schedule" -> "schedule_start"
      [] state = ASK_DATE /\ ev = "cb_date" -> "receive_date_button"
      [] state = ASK_DATE /\ ev = "cmd_schedule" -> "schedule_start"
      [] state = ASK_DOC /\ ev = "msg" /\ att \in {"document", "photo"}
            -> "receive_document"
      [] state = ASK_DOC /\ ev = "cmd_schedule" -> "schedule_start"
      [] state # IDLE /\ ev = "cmd_cancel" -> "cancel"
      [] OTHER -> "none"

Route(state, ev, att) ==
    IF ev = "cmd_start" THEN "start"
    ELSE IF conv_handler(state, ev, att) # "none"
         THEN conv_handler(state, ev, att)
    ELSE IF ev \in Commands THEN "unknown"
    ELSE "none"

-----------------------------------------------------------------------------
(* The record of the update handled last *)

Handled(ev, h, reply) ==
    [ev |-> ev, h |-> h, reply |-> reply,
     err |-> "none", sent |-> 0, bid |-> 0, kb |-> <<>>]

Init ==
    /\ today = Today0
    /\ conv = [u \in Users |-> [c \in Chats |-> IDLE]]
    /\ user_data = [u \in Users |-> [chosen_date |-> NoDate]]
    /\ store \in {<<>>, LegacyRows}
    /\ rendered = [c \in Chats |-> {}]
    /\ last = Handled("init", "none", "NONE")

start(u, c) ==
    /\ Route(conv[u][c], "cmd_start", "none") = "start"
    /\ last' = Handled("cmd_start", "start", "WELCOME")
    /\ UNCHANGED <<today, conv, user_data, store, rendered>>

schedule_start(u, c) ==
    /\ Route(conv[u][c], "cmd_schedule", "none") = "schedule_start"
    /\ rendered' = [rendered EXCEPT ![c] =
                      @ \cup Range(generate_next_two_weeks_buttons(today))]
    /\ conv' = [conv EXCEPT ![u][c] = ASK_DATE]
    /\ last' = [Handled("cmd_schedule", "schedule_start", "SELECT_DATE")
                   EXCEPT !.kb = generate_next_two_weeks_buttons(today)]
    /\ UNCHANGED <<today, user_data, store>>

set_chosen_date_shared(ud, u, date_str) ==
    [v \in DOMAIN ud |-> [ud[v] EXCEPT !.chosen_date = date_str]]

set_chosen_date_dropped(ud, u, date_str) == ud

(* context.user_data['chosen_date'] = date_str *)
set_chosen_date(ud, u, date_str) == [ud EXCEPT ![u].chosen_date = date_str]

receive_date_button(u, c, date_str, db_ok) ==
    /\ Route(conv[u][c], "cb_date", "none") = "receive_date_button"
    /\ date_str \in rendered[c] \cap PickDates
    /\ LET ev(reply) == Handled("cb_date", "receive_date_button", reply)
       IN  IF ~db_ok
           THEN (* sqlite3 raises: the handler is left, the state is kept *)
                /\ last' = [ev("NONE") EXCEPT !.err = "storage"]
                /\ UNCHANGED <<conv, user_data>>
           ELSE IF user_has_booking_on_date(store, u, date_str)
           THEN /\ last' = ev("ALREADY_BOOKED")
                /\ conv' = [conv EXCEPT ![u][c] = ASK_DATE]
                /\ UNCHANGED user_data
           ELSE IF count_bookings_for_date(store, date_str) >= Capacity
           THEN /\ last' = ev("FULLY_BOOKED")
                /\ conv' = [conv EXCEPT ![u][c] = ASK_DATE]
                /\ UNCHANGED user_data
           ELSE /\ user_data' = set_chosen_date(user_data, u, date_str)
                /\ last' = ev("SELECTED")
                /\ conv' = [conv EXCEPT ![u][c] = ASK_DOC]
    /\ UNCHANGED <<today, store, rendered>>

(* The two sends to ADMIN_ID; send_fail names the send that raises (0: none) *)
admin_dispatch(send_fail) ==
    [failed |-> send_fail # 0,
     sent |-> IF send_fail = 0 THEN 2 ELSE send_fail - 1]

after_dispatch_swallowed(failed) == [reply |-> "SUBMITTED", state |-> END]

(* The reply to the user and the state returned after the dispatch *)
after_dispatch(failed) ==
    IF failed THEN [reply |-> "SEND_FAILED", state |-> END]
    ELSE [reply |-> "SUBMITTED", state |-> END]

receive_document(u, c, att, db_ok, send_fail) ==
    /\ Route(conv[u][c], "msg", att) = "receive_document"
    /\ Inserted(store) < MaxRows
    /\ LET date_str == user_data[u].chosen_date
           ev(reply) == Handled("msg", "receive_document", reply)
       IN  IF date_str = NoDate
           THEN /\ last' = ev("DATE_MISSING")
                /\ conv' = [conv EXCEPT ![u][c] = END]
                /\ UNCHANGED store
           ELSE IF att = "none"
           THEN /\ last' = ev("NEED_FILE")
                /\ conv' = [conv EXCEPT ![u][c] = ASK_DOC]
                /\ UNCHANGED store
           ELSE IF ~db_ok
           THEN (* sqlite3 raises in add_booking: nothing is committed *)
                /\ last' = [ev("NONE") EXCEPT !.err = "storage"]
                /\ UNCHANGED <<conv, store>>
           ELSE LET booking_id == NextRowId(store)
                    d == admin_dispatch(send_fail)
                    r == after_dispatch(d.failed)
                IN  /\ store' = add_booking(store, u, date_str)
                    /\ last' = [ev(r.reply) EXCEPT
                                   !.bid = booking_id, !.sent = d.sent,
                                   !.err = IF d.failed THEN "dispatch"
                                           ELSE "none"]
                    /\ conv' = [conv EXCEPT ![u][c] = r.state]
    /\ UNCHANGED <<today, user_data, rendered>>

cancel(u, c) ==
    /\ Route(conv[u][c], "cmd_cancel", "none") = "cancel"
    /\ conv' = [conv EXCEPT ![u][c] = END]
    /\ last' = Handled("cmd_cancel", "cancel", "CANCELED")
    /\ UNCHANGED <<today, user_data, store, rendered>>

unknown(u, c, ev) ==
    /\ ev \in Commands
    /\ Route(conv[u][c], ev, "none") = "unknown"
    /\ last' = Handled(ev, "unknown", "NOT_UNDERSTOOD")
    /\ UNCHANGED <<today, conv, user_data, store, rendered>>

(* An update no handler of the Application accepts is dropped *)
Unhandled(u, c, ev, att) ==
    /\ ev \in {"cb_date", "msg"}
    /\ ev = "cb_date" => att = "none"
    /\ Route(conv[u][c], ev, att) = "none"
    /\ last' = Handled(ev, "none", "NONE")
    /\ UNCHANGED <<today, conv, user_data, store, rendered>>

(* The administrator's decision on a PENDING booking (outside src/main.py) *)
AdminDecide(i, status) ==
    /\ i \in 1..Len(store)
    /\ store[i].status = "PENDING"
    /\ store' = [store EXCEPT ![i].status = status]
    /\ last' = [Handled("admin", "none", "NONE") EXCEPT !.bid = store[i].id]
    /\ UNCHANGED <<today, conv, user_data, rendered>>

Next ==
    \/ \E u \in Users, c \in Chats : start(u, c)
    \/ \E u \in Users, c \in Chats : schedule_start(u, c)
    \/ \E u \in Users, c \in Chats, d \in PickDates, db_ok \in BOOLEAN :
          receive_date_button(u, c, d, db_ok)
    \/ \E u \in Users, c \in Chats, att \in Attachments,
          db_ok \in BOOLEAN, send_fail \in 0..2 :
          receive_document(u, c, att, db_ok, send_fail)
    \/ \E u \in Users, c \in Chats : cancel(u, c)
    \/ \E u \in Users, c \in Chats, ev \in Commands : unknown(u, c, ev)
    \/ \E u \in Users, c \in Chats, ev \in Events, att \in Attachments :
          Unhandled(u, c, ev, att)
    \/ \E i \in 1..(Capacity + MaxRows), status \in {"APPROVED", "REJECTED"} :
          AdminDecide(i, status)

Spec == Init /\ [][Next]_vars

(* The date keyboard alone, for every weekday of today *)
InitPolicy ==
    /\ today \in Today0..(Today0 + MaxStart)
    /\ conv = [u \in Users |-> [c \in Chats |-> IDLE]]
    /\ user_data = [u \in Users |-> [chosen_date |-> NoDate]]
    /\ store = <<>>
    /\ rendered = [c \in Chats |-> {}]
    /\ last = Handled("init", "none", "NONE")

NextPolicy ==
    \/ \E u \in Users, c \in Chats : schedule_start(u, c)
    \/ \E u \in Users, c \in Chats : cancel(u, c)

SpecPolicy == InitPolicy /\ [][NextPolicy]_vars

(* Midnight UTC: datetime.utcnow().date() moves on *)
Tick ==
    /\ today < Today0 + MaxTicks
    /\ today' = today + 1
    /\ last' = Handled("tick", "none", "NONE")
    /\ UNCHANGED <<conv, user_data, store, rendered>>

(* The booking conversation across midnight: the keyboards sent on earlier *)
(* days stay in the chat and their buttons can still be pressed.           *)
NextClock ==
    \/ \E u \in Users, c \in Chats : schedule_start(u, c)
    \/ \E u \in Users, c \in Chats, d \in PickDates, db_ok \in BOOLEAN :
          receive_date_button(u, c, d, db_ok)
    \/ \E u \in Users, c \in Chats, att \in Attachments,
          db_ok \in BOOLEAN, send_fail \in 0..2 :
          receive_document(u, c, att, db_ok, send_fail)
    \/ \E u \in Users, c \in Chats : cancel(u, c)
    \/ Tick

SpecClock == Init /\ [][NextClock]_vars

-----------------------------------------------------------------------------
(* Properties *)

RowsOf(u, d) == {i \in 1..Len(store) : store[i].user_id = u /\ store[i].date = d}

ApprovedOn(d) ==
    {i \in 1..Len(store) : store[i].date = d /\ store[i].status = "APPROVED"}

(* An update of user u in chat c that is a date selection of d, an upload  *)
(* of a document or photo, or a /cancel command                            *)
DateSelection(u, c, d) ==
    /\ last'.h = "receive_date_button"
    /\ \E db_ok \in BOOLEAN : receive_date_button(u, c, d, db_ok)

Upload(u, c) ==
    /\ last'.ev = "msg"
    /\ \E att \in {"document", "photo"} :
        \/ Unhandled(u, c, "msg", att)
        \/ \E db_ok \in BOOLEAN, send_fail \in 0..2 :
              receive_document(u, c, att, db_ok, send_fail)

CancelRequest(u, c) ==
    /\ last'.ev = "cmd_cancel"
    /\ cancel(u, c) \/ unknown(u, c, "cmd_cancel")

(* C1: the store holds at most one booking row for each (user_id, date).   *)
(* Stated as claimed; the store reaches a state that violates it.          *)
OneBookingPerUserDate ==
    \A u \in Users, d \in PickDates : Cardinality(RowsOf(u, d)) <= 1

(* C2: for every date, at most 10 bookings have status APPROVED.           *)
(* Stated as claimed; the store reaches a state that violates it.          *)
ApprovedWithinCapacity ==
    \A d \in PickDates : Cardinality(ApprovedOn(d)) <= 10

(* C3: capacity law.  A date selection of d by a user in ASK_DATE, made    *)
(* when 10 or more APPROVED bookings exist for d, leaves the conversation  *)
(* in ASK_DATE, leaves chosen_date as it was and inserts no booking.       *)
CapacityLaw ==
    [][\A u \in Users, c \in Chats, d \in PickDates :
          (DateSelection(u, c, d) /\ Cardinality(ApprovedOn(d)) >= 10)
              => /\ conv'[u][c] = ASK_DATE
                 /\ user_data'[u] = user_data[u]
                 /\ store' = store]_vars

CapacityLawWitness ==
    /\ last.h = "receive_date_button"
    /\ last.reply = "FULLY_BOOKED"
    /\ \E d \in PickDates : Cardinality(ApprovedOn(d)) >= 10
    /\ \E u \in Users, c \in Chats : conv[u][c] = ASK_DATE

(* C4: duplicate law.  A date selection of d by a user in ASK_DATE who     *)
(* already has a booking row for d, whatever its status, leaves the        *)
(* conversation in ASK_DATE, leaves chosen_date as it was and inserts no   *)
(* booking.                                                                *)
DuplicateLaw ==
    [][\A u \in Users, c \in Chats, d \in PickDates :
          (DateSelection(u, c, d) /\ RowsOf(u, d) # {})
              => /\ conv'[u][c] = ASK_DATE
                 /\ user_data'[u] = user_data[u]
                 /\ store' = store]_vars

DuplicateLawWitness ==
    /\ last.h = "receive_date_button"
    /\ last.reply = "ALREADY_BOOKED"
    /\ \E u \in Users, c \in Chats, d \in PickDates :
          /\ conv[u][c] = ASK_DATE
          /\ \E i \in RowsOf(u, d) : store[i].status = "REJECTED"
          /\ \A v \in Users \ {u} : RowsOf(v, d) = {}

(* C5: a failure of the store while a date selection or an upload is       *)
(* handled is answered with a failure message and ends the conversation    *)
(* (IDLE).  Stated as claimed; the handlers violate it.                    *)
StorageFailureAborts ==
    [][\A u \in Users, c \in Chats :
          (/\ last'.err = "storage"
           /\ \/ \E d \in PickDates : receive_date_button(u, c, d, FALSE)
              \/ \E att \in Attachments, send_fail \in 0..2 :
                    receive_document(u, c, att, FALSE, send_fail))
              => /\ last'.reply # "NONE"
                 /\ conv'[u][c] = IDLE]_vars

(* C6: when one of the two sends to the administrator fails after the      *)
(* booking was inserted, the user is sent the failure message and not the  *)
(* confirmation, the conversation is IDLE, and the inserted row is in the  *)
(* store with status PENDING.                                              *)
DispatchFailure ==
    [][\A u \in Users, c \in Chats, att \in Attachments, send_fail \in 1..2 :
          (/\ last'.h = "receive_document"
           /\ Len(store') > Len(store)
           /\ receive_document(u, c, att, TRUE, send_fail))
              => /\ last'.reply = "SEND_FAILED"
                 /\ conv'[u][c] = IDLE
                 /\ Len(store') = Len(store) + 1
                 /\ SubSeq(store', 1, Len(store)) = store
                 /\ LET row == store'[Len(store')]
                    IN  /\ row.status = "PENDING"
                        /\ row.user_id = u
                        /\ row.date = user_data[u].chosen_date
                        /\ row.id = last'.bid]_vars

DispatchFailureWitness ==
    /\ last.h = "receive_document"
    /\ last.err = "dispatch"
    /\ last.sent = 1
    /\ last.reply = "SEND_FAILED"
    /\ \E i \in 1..Len(store) : store[i].id = last.bid /\ store[i].status = "PENDING"

(* C7: /cancel in ASK_DOC ends the conversation (IDLE); a conversation in  *)
(* IDLE stays there until /schedule; and a document or photo uploaded      *)
(* while the conversation is IDLE inserts no booking, sends nothing to the *)
(* administrator and leaves the conversation in IDLE.                      *)
CancelThenUpload ==
    [][\A u \in Users, c \in Chats :
          /\ (conv[u][c] = ASK_DOC /\ CancelRequest(u, c)) => conv'[u][c] = IDLE
          /\ (conv[u][c] = IDLE /\ conv'[u][c] # IDLE) => schedule_start(u, c)
          /\ (conv[u][c] = IDLE /\ Upload(u, c))
                => /\ store' = store
                   /\ last'.sent = 0
                   /\ conv'[u][c] = IDLE]_vars

(* Every conversation is IDLE, a user has chosen a date and has no booking *)
(* (the conversation was cancelled), and the update handled last is an     *)
(* upload that no handler took.                                            *)
CancelThenUploadWitness ==
    /\ last.ev = "msg"
    /\ last.h = "none"
    /\ \A u \in Users, c \in Chats : conv[u][c] = IDLE
    /\ \E u \in Users :
          /\ user_data[u].chosen_date # NoDate
          /\ \A i \in 1..Len(store) : store[i].user_id # u

(* C8: /cancel in any conversation state leaves the conversation in IDLE,  *)
(* is answered with the cancellation confirmation and leaves the store     *)
(* unchanged.  Stated as claimed; /cancel in IDLE violates it.             *)
CancelAlwaysConfirmed ==
    [][\A u \in Users, c \in Chats :
          CancelRequest(u, c)
              => /\ conv'[u][c] = IDLE
                 /\ last'.reply = "CANCELED"
                 /\ store' = store]_vars

(* C9: once a booking was inserted for (u, d), user_has_booking_on_date    *)
(* is true for (u, d) in that state and in every later state.              *)
HasBookingPersists ==
    [][\A u \in Users, d \in PickDates :
          /\ (store' # store /\ user_has_booking_on_date(store, u, d))
                => user_has_booking_on_date(store', u, d)
          /\ (/\ last'.h = "receive_document"
              /\ Len(store') > Len(store)
              /\ user_data[u].chosen_date = d
              /\ \E c \in Chats, att \in Attachments, send_fail \in 0..2 :
                    receive_document(u, c, att, TRUE, send_fail))
                => user_has_booking_on_date(store', u, d)]_vars

HasBookingPersistsWitness ==
    /\ last.ev = "admin"
    /\ \E i \in 1..Len(store) :
          /\ store[i].id = last.bid
          /\ store[i].user_id \in Users
          /\ store[i].status = "REJECTED"
          /\ user_has_booking_on_date(store, store[i].user_id, store[i].date)

(* C10: the keyboard sent by /schedule lists, in strictly ascending order, *)
(* exactly the dates d with today + 2 <= d < today + 14 that are neither a *)
(* Friday nor a Saturday (ordinal mod 7 is 5 or 6).                        *)
OfferableDates ==
    last.h = "schedule_start"
        => /\ Range(last.kb) =
                 {d \in (today + 2)..(today + 13) : d % 7 \notin {5, 6}}
           /\ \A i \in 1..(Len(last.kb) - 1) : last.kb[i] < last.kb[i + 1]

(* Rendered on a Wednesday: Friday today + 2 is left out, Sunday is in.    *)
OfferableDatesWitness ==
    /\ last.h = "schedule_start"
    /\ today % 7 = 3
    /\ Len(last.kb) = 8
    /\ last.kb[1] = today + 4

(* C11: booking ids are unique and increasing: every insert returns an id  *)
(* greater than the id of every row already in the store, and that id is   *)
(* the id of the inserted row.                                             *)
IdsMonotonic ==
    [][Len(store') > Len(store)
          => /\ \A i \in 1..Len(store) : store[i].id < last'.bid
             /\ store'[Len(store')].id = last'.bid
             /\ \A i, j \in 1..Len(store') :
                   i < j => store'[i].id < store'[j].id]_vars

IdsMonotonicWitness ==
    /\ last.h = "receive_document"
    /\ Inserted(store) >= 2
    /\ store[Len(store)].id = last.bid
    /\ store[Len(store) - 1].id < last.bid

(* C12: an upload handled in ASK_DOC with a chosen_date, when the store    *)
(* accepts the insert, appends exactly one row, PENDING, with the          *)
(* uploader's user_id and the session's chosen_date; and whenever the      *)
(* approve/reject controls are sent to the administrator they carry the id *)
(* of that row, which is in the store.                                     *)
UploadInsertsOne ==
    [][/\ \A u \in Users, c \in Chats, att \in {"document", "photo"},
             send_fail \in 0..2 :
             (/\ last'.h = "receive_document"
              /\ last'.err # "storage"
              /\ user_data[u].chosen_date # NoDate
              /\ receive_document(u, c, att, TRUE, send_fail))
                 => /\ Len(store') = Len(store) + 1
                    /\ SubSeq(store', 1, Len(store)) = store
                    /\ store'[Len(store')].status = "PENDING"
                    /\ store'[Len(store')].user_id = u
                    /\ store'[Len(store')].date = user_data[u].chosen_date
                    /\ last'.sent = 2 => store'[Len(store')].id = last'.bid
       /\ last'.sent = 2 => last'.bid \in RowIds(store')]_vars

UploadInsertsOneWitness ==
    /\ last.h = "receive_document"
    /\ last.reply = "SUBMITTED"
    /\ last.sent = 2
    /\ \E i \in 1..Len(store) :
          /\ store[i].id = last.bid
          /\ store[i].status = "PENDING"
          /\ store[i].user_id \in Users

(* C13: every date accepted at date selection is offerable on the day the  *)
(* selection is handled: today + 2 <= d < today + 14 and d is neither a    *)
(* Friday nor a Saturday.  Stated as claimed; a button of a keyboard sent  *)
(* on an earlier day violates it.                                          *)
AcceptedDateOfferable ==
    [][\A u \in Users, c \in Chats, d \in PickDates :
          (DateSelection(u, c, d) /\ conv'[u][c] = ASK_DOC)
              => /\ today + 2 <= d
                 /\ d < today + 14
                 /\ d % 7 \notin {5, 6}]_vars

(* C14: a user whose conversations have all ended (IDLE) has no            *)
(* chosen_date in the session.  Stated as claimed; the session keeps the   *)
(* date after the conversation ends.                                       *)
SessionDestroyed ==
    \A u \in Users :
        (\A c \in Chats : conv[u][c] = IDLE)
            => user_data[u].chosen_date = NoDate

(* C15: /schedule in ASK_DATE or ASK_DOC puts the conversation in ASK_DATE *)
(* and removes the chosen date from the session, and an upload while the   *)
(* conversation is in ASK_DATE inserts no booking.  Stated as claimed; the *)
(* chosen date stays in the session.                                       *)
RestartDiscards ==
    [][\A u \in Users, c \in Chats :
          /\ (/\ last'.ev = "cmd_schedule"
              /\ conv[u][c] \in {ASK_DATE, ASK_DOC}
              /\ schedule_start(u, c))
                => /\ conv'[u][c] = ASK_DATE
                   /\ user_data'[u].chosen_date = NoDate
          /\ (conv[u][c] = ASK_DATE /\ Upload(u, c)) => store' = store]_vars

(* C16: in ASK_DOC a message with neither a document nor a photo is        *)
(* answered with the request for a file or photo, leaves the conversation  *)
(* in ASK_DOC and chosen_date as it was, and inserts no booking.  Stated   *)
(* as claimed; the message is answered with nothing.                       *)
NonFileReprompted ==
    [][\A u \in Users, c \in Chats :
          (/\ last'.ev = "msg"
           /\ conv[u][c] = ASK_DOC
           /\ \/ Unhandled(u, c, "msg", "none")
              \/ \E db_ok \in BOOLEAN, send_fail \in 0..2 :
                    receive_document(u, c, "none", db_ok, send_fail))
              => /\ last'.reply = "NEED_FILE"
                 /\ conv'[u][c] = ASK_DOC
                 /\ user_data'[u] = user_data[u]
                 /\ store' = store]_vars

(* An update of user u, of any kind, in any chat *)
EventOf(u) ==
    \E c \in Chats :
        \/ last'.h = "start" /\ start(u, c)
        \/ last'.h = "schedule_start" /\ schedule_start(u, c)
        \/ /\ last'.h = "receive_date_button"
           /\ \E d \in PickDates, db_ok \in BOOLEAN :
                 receive_date_button(u, c, d, db_ok)
        \/ /\ last'.h = "receive_document"
           /\ \E att \in Attachments, db_ok \in BOOLEAN, send_fail \in 0..2 :
                 receive_document(u, c, att, db_ok, send_fail)
        \/ last'.h = "cancel" /\ cancel(u, c)
        \/ last'.h = "unknown" /\ \E ev \in Commands : unknown(u, c, ev)
        \/ /\ last'.h = "none"
           /\ \E ev \in Events, att \in Attachments : Unhandled(u, c, ev, att)

(* C17: handling an update of user u leaves the conversation state and the *)
(* chosen_date of every other user unchanged.                              *)
UsersIndependent ==
    [][\A u \in Users :
          ((conv' # conv \/ user_data' # user_data) /\ EventOf(u))
              => \A v \in Users \ {u} :
                    /\ conv'[v] = conv[v]
                    /\ user_data'[v] = user_data[v]]_vars

UsersIndependentWitness ==
    /\ last.h = "receive_date_button"
    /\ last.reply = "SELECTED"
    /\ \E u \in Users, c \in Chats :
          /\ conv[u][c] = ASK_DOC
          /\ user_data[u].chosen_date # NoDate
          /\ \E v \in Users \ {u} :
                /\ user_data[v].chosen_date = NoDate
                /\ \E k \in Chats : conv[v][k] = ASK_DATE

(* C18: whenever a conversation is in ASK_DOC the user's session holds a   *)
(* chosen_date, and the 'Date missing' reply of the upload step is never   *)
(* sent.                                                                   *)
DateHeldInAskDoc ==
    /\ \A u \in Users, c \in Chats :
          conv[u][c] = ASK_DOC => user_data[u].chosen_date # NoDate
    /\ last.reply # "DATE_MISSING"

DateHeldInAskDocWitness ==
    /\ last.h = "receive_document"
    /\ last.reply = "SUBMITTED"
    /\ \E u \in Users, c \in Chats : conv[u][c] = ASK_DOC

(* C19: a step of the bot changes the store only by appending one row, and *)
(* only when an upload of a document or photo by a user whose conversation *)
(* is in ASK_DOC is handled; /schedule, date selections, /cancel, /start   *)
(* and unrecognized commands leave the store as it is.                     *)
StoreChangesOnlyByUpload ==
    [][(store' # store /\ last'.ev # "admin")
          => /\ last'.h = "receive_document"
             /\ Len(store') = Len(store) + 1
             /\ SubSeq(store', 1, Len(store)) = store
             /\ \E u \in Users, c \in Chats :
                   /\ conv[u][c] = ASK_DOC
                   /\ store'[Len(store')].user_id = u
                   /\ \E att \in {"document", "photo"}, send_fail \in 0..2 :
                         receive_document(u, c, att, TRUE, send_fail)]_vars

StoreChangesOnlyByUploadWitness ==
    /\ last.ev \in {"cmd_schedule", "cb_date", "cmd_cancel", "cmd_start", "cmd_other"}
    /\ \E i \in 1..Len(store) :
          store[i].user_id \in Users /\ store[i].status = "PENDING"

====
